---- MODULE Spec2Model ----
(***************************************************************************)
(* Model of the two Vaulty asset generators:                               *)
(*   src/generate_icon.py     icon-{16,32,48,128}.png, supersampled        *)
(*   src/generate_favicon.py  favicon.ico with four embedded resolutions   *)
(*                                                                         *)
(* Each script runs once, top to bottom.  A behaviour of the model is one  *)
(* run of one entry point: a script itself, or one of its functions called *)
(* by a driver with arguments drawn from bounded sets.                     *)
(*                                                                         *)
(* Numbers.  The source computes polygon vertices and gradient values in   *)
(* binary64 (s * 0.16, thick * 0.38, y / (size - 1), ...).  The model      *)
(* computes the same expressions with the same roundings: a float is held  *)
(* as the exact number it stands for, and every operation rounds its exact *)
(* result to 53 significant bits, ties to even.  int(...) truncates and // *)
(* is floor division.                                                      *)
(*                                                                         *)
(* Imaging library.  Pillow is outside the repository.  An image is a      *)
(* heap object [mode, side, ops]; ops is the list of drawing operations    *)
(* applied to it so far.  trace lists, in order, the calls that completed: *)
(* Image.new, load, the drawing calls, paste, alpha_composite, resize,     *)
(* save, os.makedirs, pip and print, and the returns of the repository's own    *)
(* functions.  An ImageDraw.Draw handle is held in env as the identity of  *)
(* the image it draws on.  Which Pillow is installed, if any, is part of   *)
(* the environment of the run (entry.pillow): without one the import       *)
(* fails (generate_favicon.py first tries pip); before 8.2.0 ImageDraw has *)
(* no rounded_rectangle; from 9.5.0 on a box with x1 < x0 or y1 < y0       *)
(* raises ValueError, where an older Pillow draws it.                      *)
(*                                                                         *)
(* Standard output.  print encodes its text with the encoding of stdout,   *)
(* which the environment of the run fixes (entry.stdout); a character the  *)
(* encoding lacks raises UnicodeEncodeError, which nothing handles.  The    *)
(* encoded text is then written; when stdout is written through (a         *)
(* terminal, or unbuffered) to a device or pipe that refuses the write,    *)
(* print raises OSError, which nothing handles either.                     *)
(***************************************************************************)
EXTENDS Integers, Sequences, FiniteSets, TLC

VARIABLES entry,  \* the entry point of this run, its arguments, its stdout
                  \* and the Pillow it imports
          pc,     \* position in the code
          env,    \* the local and module-level variables of the running code
          heap,   \* the images created so far, by identity
          trace,  \* the calls made to the imaging library, os and print
          fs,     \* the files written so far
          fault   \* "none", or the exception that ended the run

vars == <<entry, pc, env, heap, trace, fs, fault>>

\* --------------------------------------------------------------- bounds
\* Largest canvas side the driver passes to draw_v and make_vaulty_favicon.
MaxDrawSize == 12
\* Largest size the driver passes to vertical_gradient.
MaxGradSize == 12
\* Largest size the driver passes to make_icon.
MaxIconSize == 6

\* ----------------------------------------------------------- arithmetic
Abs(a) == IF a >= 0 THEN a ELSE -a

Max2(a, b) == IF a >= b THEN a ELSE b
Min2(a, b) == IF a <= b THEN a ELSE b

\* --- binary64.  A float x >= 0 is held exactly, as the natural number
\* x * 2^(FracLimbs * LimbBits), written in base 2^LimbBits with the least
\* significant digit first.  Every operation computes the exact result and
\* rounds it to a 53-bit significand, ties to even, as IEEE 754 does.

\* The significand of a binary64 float.
Precision == 53

\* Bits per digit, and digits after the binary point: 72 fraction bits hold
\* the 53-bit significand of any quotient y / (size - 1) >= 2^-19.
LimbBits  == 12
FracLimbs == 6
Limb      == 2 ^ LimbBits

RECURSIVE NatLimbs(_)
\* n >= 0 in base Limb, least significant digit first.
NatLimbs(n) == IF n = 0 THEN <<>> ELSE <<n % Limb>> \o NatLimbs(n \div Limb)

\* Without leading zero digits.
Trim(x) ==
    LET nz == { i \in 1..Len(x) : x[i] # 0 }
    IN  IF nz = {} THEN <<>>
        ELSE SubSeq(x, 1, CHOOSE i \in nz : \A i2 \in nz : i2 <= i)

RECURSIVE MulSmall(_, _, _)
\* x * c + carry for a small natural c.
MulSmall(x, c, carry) ==
    IF x = <<>> THEN NatLimbs(carry)
    ELSE <<(Head(x) * c + carry) % Limb>>
         \o MulSmall(Tail(x), c, (Head(x) * c + carry) \div Limb)

RECURSIVE AddLimbs(_, _, _)
\* a + b + carry
AddLimbs(a, b, carry) ==
    IF a = <<>> /\ b = <<>> THEN NatLimbs(carry)
    ELSE LET v == (IF a = <<>> THEN 0 ELSE Head(a))
                  + (IF b = <<>> THEN 0 ELSE Head(b)) + carry
         IN  <<v % Limb>> \o AddLimbs(IF a = <<>> THEN a ELSE Tail(a),
                                      IF b = <<>> THEN b ELSE Tail(b), v \div Limb)

RECURSIVE SubLimbs(_, _, _)
\* a - b - borrow, for a >= b + borrow (leading zero digits are left in).
SubLimbs(a, b, borrow) ==
    IF a = <<>> THEN <<>>
    ELSE LET v == Head(a) - (IF b = <<>> THEN 0 ELSE Head(b)) - borrow
         IN  <<v % Limb>> \o SubLimbs(Tail(a), IF b = <<>> THEN b ELSE Tail(b),
                                      IF v < 0 THEN 1 ELSE 0)

RECURSIVE QuotientLimbs(_, _, _)
\* The first n digits after the point of r / d (r < d), least significant
\* first: long division.
QuotientLimbs(r, d, n) ==
    IF n = 0 THEN <<>>
    ELSE QuotientLimbs((r * Limb) % d, d, n - 1) \o <<(r * Limb) \div d>>

RECURSIVE RemainderAfter(_, _, _)
\* What is left of r after those n digits.
RemainderAfter(r, d, n) ==
    IF n = 0 THEN r ELSE RemainderAfter((r * Limb) % d, d, n - 1)

\* Bit i (from 1, least significant) of x.
Bit(x, i) == (x[(i - 1) \div LimbBits + 1] \div (2 ^ ((i - 1) % LimbBits))) % 2

\* The number of bits of x, a number without leading zero digits.
BitLength(x) ==
    IF x = <<>> THEN 0
    ELSE (Len(x) - 1) * LimbBits
         + Cardinality({ i \in 0..(LimbBits - 1) : 2 ^ i <= x[Len(x)] })

\* Round the exact value x (plus a nonzero amount below its last bit when
\* sticky) to Precision significant bits, to nearest, ties to even.
RoundNearestEven(x, sticky) ==
    IF BitLength(x) <= Precision THEN x
    ELSE LET k    == BitLength(x) - Precision
             a    == k \div LimbBits
             s    == k % LimbBits
             rest == sticky \/ \E i \in 1..(k - 1) : Bit(x, i) = 1
             up   == Bit(x, k) = 1 /\ (rest \/ Bit(x, k + 1) = 1)
             kept == [i \in 1..Len(x) |->
                        IF i <= a THEN 0
                        ELSE IF i = a + 1 THEN (x[i] \div (2 ^ s)) * (2 ^ s)
                        ELSE x[i]]
             ulp  == [i \in 1..(a + 1) |-> IF i = a + 1 THEN 2 ^ s ELSE 0]
         IN  IF up THEN AddLimbs(kept, ulp, 0) ELSE kept

\* float(n) for a small natural n.
FloatOfNat(n) == IF n = 0 THEN <<>> ELSE [i \in 1..FracLimbs |-> 0] \o NatLimbs(n)

\* y / d for integers 0 <= y <= d, d > 0: Python's true division is the
\* correctly rounded quotient.
FloatDiv(y, d) ==
    RoundNearestEven(Trim(QuotientLimbs(y % d, d, FracLimbs) \o NatLimbs(y \div d)),
                     RemainderAfter(y % d, d, FracLimbs) # 0)

\* int(x) for a float 0 <= x < Limb: the digit above the point.
FloatToInt(x) == IF Len(x) <= FracLimbs THEN 0 ELSE x[FracLimbs + 1]

\* A decimal literal n/d of the source (0.16 is Literal(16, 100)): the float
\* nearest to it.
Literal(n, d) == FloatDiv(n, d)

\* n * x for an int n >= 0 and a float x.
IntMul(n, x) == RoundNearestEven(Trim(MulSmall(x, n, 0)), FALSE)

RECURSIVE SumSeq(_)
SumSeq(s) == IF s = <<>> THEN 0 ELSE Head(s) + SumSeq(Tail(s))

RECURSIVE Carry(_, _)
\* The digits of a number given by columns that exceed a digit.
Carry(cols, carry) ==
    IF cols = <<>> THEN NatLimbs(carry)
    ELSE <<(Head(cols) + carry) % Limb>>
         \o Carry(Tail(cols), (Head(cols) + carry) \div Limb)

\* The exact product of two digit sequences: the column sums of the
\* schoolbook multiplication, then the carries.
MulLimbs(a, b) ==
    LET lo(k)  == Max2(1, k + 1 - Len(b))
        hi(k)  == Min2(k, Len(a))
        col(k) == SumSeq([n \in 1..(hi(k) - lo(k) + 1) |->
                            a[lo(k) + n - 1] * b[k + 2 - lo(k) - n]])
    IN  IF a = <<>> \/ b = <<>> THEN <<>>
        ELSE Carry([k \in 1..(Len(a) + Len(b) - 1) |-> col(k)], 0)

\* x * y for floats: the exact product has twice the fraction digits; it is
\* rounded and its low digits, then zero, are dropped.
FloatMul(x, y) ==
    LET r == RoundNearestEven(Trim(MulLimbs(x, y)), FALSE)
    IN  IF Len(r) <= FracLimbs THEN <<>> ELSE SubSeq(r, FracLimbs + 1, Len(r))

\* x + y, and x - y for x >= y.
FloatAdd(x, y) == RoundNearestEven(Trim(AddLimbs(x, y, 0)), FALSE)
FloatSub(x, y) == RoundNearestEven(Trim(SubLimbs(x, y, 0)), FALSE)

\* ------------------------------------------------- imaging library calls
\* Image.new(mode, (side, side), ...): a fresh image with nothing drawn on it.
\* Its identity is its index in the heap.
NewImage(h, mode, side) == Append(h, [mode |-> mode, side |-> side, ops |-> <<>>])

\* The identity of the image the last NewImage / alpha_composite created.
Newest(h) == Len(h)

\* A drawing call through an ImageDraw handle bound to image id: the image
\* itself changes (ImageDraw draws in place).
DrawOn(h, id, op) == [h EXCEPT ![id].ops = Append(@, op)]

\* Image.alpha_composite(a, b) returns a NEW image: a's content with b's
\* content composited over it; a and b are left as they were.
alpha_composite(h, a, b) ==
    Append(h, [mode |-> h[a].mode, side |-> h[a].side,
               ops  |-> Append(h[a].ops, [op |-> "composite", src |-> h[b].ops])])

\* Pillow raises ValueError("images do not match") unless both sides agree.
CanComposite(h, a, b) == h[a].side = h[b].side /\ h[a].mode = h[b].mode

\* (*rgb, alpha)
WithAlpha(rgb, a) == <<rgb[1], rgb[2], rgb[3], a>>

\* =================================================== generate_favicon.py
bg_color  == <<15, 23, 42>>
accent    == <<99, 102, 241>>
highlight == <<139, 92, 246>>

\* sizes = [16, 32, 48, 64] in save_favicon
favicon_sizes == <<16, 32, 48, 64>>

\* out = os.path.join(os.path.dirname(__file__), "web", "app", "favicon.ico")
\* (relative to the directory of the script): the directory and the file name.
favicon_out == [dir |-> "web/app", name |-> "favicon.ico"]

\* os.path.dirname(path)
dirname(path) == path.dir

\* range(4) of the highlight loop
RING_COUNT == 4

\* radius = size // 5
fv_radius(size) == size \div 5

\* alpha = max(0, 60 - i * 15)
ring_alpha(i) == Max2(0, 60 - i * 15)

\* od.rounded_rectangle([(i, i), (size-1-i, size-1-i)], radius, outline, width=1)
ring_op(size, i) ==
    [op |-> "rounded_rectangle", box |-> <<i, i, size - 1 - i, size - 1 - i>>,
     radius |-> fv_radius(size), outline |-> WithAlpha(highlight, ring_alpha(i)),
     width |-> 1]

\* draw.rounded_rectangle([(0, 0), (size-1, size-1)], radius=radius, fill=bg_color)
background_op(size) ==
    [op |-> "rounded_rectangle", box |-> <<0, 0, size - 1, size - 1>>,
     radius |-> fv_radius(size), fill |-> bg_color]

\* margin = size * 0.18, top_y = size * 0.22, bot_y = size * 0.78,
\* mid_x = size / 2, thick = size * 0.13
fv_margin(size) == IntMul(size, Literal(18, 100))
fv_top_y(size)  == IntMul(size, Literal(22, 100))
fv_bot_y(size)  == IntMul(size, Literal(78, 100))
fv_mid_x(size)  == FloatDiv(size, 2)
fv_thick(size)  == IntMul(size, Literal(13, 100))

\* margin, margin + thick * 1.6, size - margin, size - margin - thick * 1.6
left_outer_x(size)  == fv_margin(size)
left_inner_x(size)  == FloatAdd(fv_margin(size), FloatMul(fv_thick(size), Literal(16, 10)))
right_outer_x(size) == FloatSub(FloatOfNat(size), fv_margin(size))
right_inner_x(size) ==
    FloatSub(FloatSub(FloatOfNat(size), fv_margin(size)),
             FloatMul(fv_thick(size), Literal(16, 10)))

v_poly(size) ==
    << <<left_outer_x(size),  fv_top_y(size)>>,
       <<left_inner_x(size),  fv_top_y(size)>>,
       <<fv_mid_x(size),
         FloatSub(fv_bot_y(size), FloatMul(fv_thick(size), Literal(9, 10)))>>,
       <<right_inner_x(size), fv_top_y(size)>>,
       <<right_outer_x(size), fv_top_y(size)>>,
       <<fv_mid_x(size),      fv_bot_y(size)>> >>

right_half(size) ==
    << <<fv_mid_x(size),      fv_top_y(size)>>,
       <<right_inner_x(size), fv_top_y(size)>>,
       <<right_outer_x(size), fv_top_y(size)>>,
       <<fv_mid_x(size),      fv_bot_y(size)>> >>

\* draw.polygon(v_poly, fill=accent)
glyph_op(size) == [op |-> "polygon", pts |-> v_poly(size), fill |-> accent]

\* od2.polygon(right_half, fill=(*highlight, 200))
two_tone_op(size) ==
    [op |-> "polygon", pts |-> right_half(size), fill |-> WithAlpha(highlight, 200)]

\* ====================================================== generate_icon.py
INDIGO_TOP    == <<99, 102, 241>>
INDIGO_BOTTOM == <<67, 56, 202>>
WHITE         == <<255, 255, 255>>
SIZES         == <<16, 32, 48, 128>>
OUT_DIR       == "extension/icons"

\* SCALE = 4 in make_icon
SCALE == 4

\* r = max(1, int(size * radius_frac)), radius_frac = 0.22
mask_radius(size) == Max2(1, FloatToInt(IntMul(size, Literal(22, 100))))

\* rounded_rect_mask(size): a new "L" image with the rounded square drawn on it.
rounded_rect_mask(h, size) ==
    DrawOn(NewImage(h, "L", size), Newest(NewImage(h, "L", size)),
           [op |-> "rounded_rectangle", box |-> <<0, 0, size - 1, size - 1>>,
            radius |-> mask_radius(size), fill |-> 255])

\* t = y / (size - 1) divides by zero in the first row when size = 1.
GradientFaults(size) == \E y \in 0..(size - 1) : size - 1 = 0

\* Mutant of gradient_channel: the row fraction is y / size, so the last row
\* stops short of the bottom colour.
gradient_channel_over_size(size, top, bot, y) ==
    LET t    == FloatDiv(y, size)
        prod == RoundNearestEven(Trim(MulSmall(t, Abs(bot - top), 0)), FALSE)
        sum  == IF bot >= top
                THEN AddLimbs(FloatOfNat(top), prod, 0)
                ELSE SubLimbs(FloatOfNat(top), prod, 0)
    IN  FloatToInt(RoundNearestEven(Trim(sum), FALSE))

\* int(top + (bot - top) * t) with t = y / (size - 1), in binary64: the
\* quotient, the product and the sum are each rounded.  For 0 <= y <= size - 1
\* and channels in 0..255 the sum is never negative.
gradient_channel(size, top, bot, y) ==
    LET t    == FloatDiv(y, size - 1)
        prod == RoundNearestEven(Trim(MulSmall(t, Abs(bot - top), 0)), FALSE)
        sum  == IF bot >= top
                THEN AddLimbs(FloatOfNat(top), prod, 0)
                ELSE SubLimbs(FloatOfNat(top), prod, 0)
    IN  FloatToInt(RoundNearestEven(Trim(sum), FALSE))

\* The (r, g, b) that the inner loop stores in px[x, y] for every x in range(size).
gradient_row(size, top_rgb, bot_rgb, y) ==
    << gradient_channel(size, top_rgb[1], bot_rgb[1], y),
       gradient_channel(size, top_rgb[2], bot_rgb[2], y),
       gradient_channel(size, top_rgb[3], bot_rgb[3], y) >>

\* vertical_gradient(size, top_rgb, bot_rgb): a new "RGB" image; rows[y] is the
\* colour of every pixel px[x, y] of row y.
vertical_gradient(h, size, top_rgb, bot_rgb) ==
    DrawOn(NewImage(h, "RGB", size), Newest(NewImage(h, "RGB", size)),
           [op |-> "pixels",
            rows |-> [y \in 0..(size - 1) |-> gradient_row(size, top_rgb, bot_rgb, y)]])

\* Mutant of dv_pad: the padding is cut to whole pixels, int(s * 0.16).
dv_pad_whole_pixels(s) == FloatOfNat(FloatToInt(IntMul(s, Literal(16, 100))))

\* pad = s * 0.16, tip_x = s * 0.50, tip_y = s * 0.74, thick = s * 0.175
dv_pad(s)   == IntMul(s, Literal(16, 100))
dv_tip_x(s) == IntMul(s, Literal(50, 100))
dv_tip_y(s) == IntMul(s, Literal(74, 100))
dv_thick(s) == IntMul(s, Literal(175, 1000))

\* (tip_x - thick * 0.38, tip_y) and (tip_x, tip_y - thick * 0.55)
apex_out(s) ==
    <<FloatSub(dv_tip_x(s), FloatMul(dv_thick(s), Literal(38, 100))), dv_tip_y(s)>>
apex_in(s)  ==
    <<dv_tip_x(s), FloatSub(dv_tip_y(s), FloatMul(dv_thick(s), Literal(55, 100)))>>

left_arm(s) ==
    << <<dv_pad(s), dv_pad(s)>>,
       <<FloatAdd(dv_pad(s), dv_thick(s)), dv_pad(s)>>,
       apex_in(s),
       apex_out(s) >>

\* The first right_arm list, built from rx0 = s - pad and rx1 = s - pad - thick;
\* line 80 overwrites it.
right_arm_rx(s) ==
    << <<FloatSub(FloatOfNat(s), dv_pad(s)), dv_pad(s)>>,
       <<FloatSub(FloatSub(FloatOfNat(s), dv_pad(s)), dv_thick(s)), dv_pad(s)>>,
       apex_in(s),
       apex_out(s) >>

\* Mutant of right_arm: the mirroring assignment is lost and the list built
\* from rx0 / rx1 is the one that is filled.
right_arm_not_mirrored(s) == right_arm_rx(s)

\* right_arm = [(2 * tip_x - x, y) for (x, y) in left_arm]
right_arm(s) ==
    [k \in 1..Len(left_arm(s)) |->
        <<FloatSub(IntMul(2, dv_tip_x(s)), left_arm(s)[k][1]), left_arm(s)[k][2]>>]

\* The two draw.polygon calls of draw_v, in order.
draw_v(s, color) ==
    << [op |-> "polygon", pts |-> left_arm(s),  fill |-> color],
       [op |-> "polygon", pts |-> right_arm(s), fill |-> color] >>

\* path = f"{OUT_DIR}/icon-{sz}.png"
icon_path(sz) == <<OUT_DIR, "icon", sz, "png">>

\* ======================================================== the runs
\* Colour pairs the driver passes to vertical_gradient: the pair make_icon
\* passes, the same pair reversed, the two extreme ramps, and two further
\* pairs, one whose channels rise and one with a falling channel.
\* --- standard output
\* The encodings of stdout a run is started under.
Encodings == {"utf-8", "ascii"}

\* U+2713, U+00D7 and U+2192.
CHECK_MARK          == 10003
MULTIPLICATION_SIGN == 215
RIGHTWARDS_ARROW    == 8594

\* The characters outside ASCII of the line print(f"  <U+2713>  {path}
\* ({sz}<U+00D7>{sz})"), and of print(f"<U+2713> Favicon saved <U+2192> {path}").
icon_line_chars    == {CHECK_MARK, MULTIPLICATION_SIGN}
favicon_line_chars == {CHECK_MARK, RIGHTWARDS_ARROW}

\* str.encode(enc) accepts the code point c (errors="strict").
CanEncode(enc, c) ==
    IF enc = "ascii" THEN c < 128 ELSE ~(55296 <= c /\ c <= 57343)

\* print(text) succeeds on stdout: every character of text can be encoded
\* (the ASCII characters of a text always can).
Printable(enc, chars) == \A c \in chars : CanEncode(enc, c)

\* --- Pillow
\* What `from PIL import Image, ImageDraw` finds: no Pillow, or a Pillow of
\* one of three generations.
Pillows == {"none", "before 8.2", "before 9.5", "9.5 or later"}

\* What `pip install --user Pillow` can install for a Python that runs these
\* scripts (f-strings: 3.6 or later; Pillow 8.4 is the last for 3.6).
Installable == {"before 9.5", "9.5 or later"}

\* ImageDraw.rounded_rectangle exists (added in Pillow 8.2.0).
HasRoundedRectangle(pillow) == pillow \in {"before 9.5", "9.5 or later"}

\* The rectangle calls of Pillow 9.5.0 and later raise ValueError for this box.
BoxRejected(pillow, box) ==
    pillow = "9.5 or later" /\ (box[3] < box[1] \/ box[4] < box[2])

\* Two calls with sizes s1 < s2.
SizePairs == { p \in (1..MaxDrawSize) \X (1..MaxDrawSize) : p[1] < p[2] }

\* A script runs under any stdout and any Pillow; a function is called by
\* code that has imported Pillow.
Entries ==
    { [fn |-> f, args |-> <<>>, stdout |-> enc, pillow |-> pil] :
        f \in {"generate_icon", "generate_favicon"}, enc \in Encodings, pil \in Pillows }
    \cup { [fn |-> "make_vaulty_favicon", args |-> a, stdout |-> "utf-8", pillow |-> pil] :
        a \in SizePairs, pil \in Pillows \ {"none"} }
    \cup { [fn |-> "draw_v", args |-> a, stdout |-> "utf-8", pillow |-> "9.5 or later"] :
        a \in SizePairs }
    \cup { [fn |-> "make_icon", args |-> <<n>>, stdout |-> "utf-8", pillow |-> pil] :
        n \in 1..MaxIconSize, pil \in {"before 8.2", "9.5 or later"} }
    \cup { [fn |-> "vertical_gradient", args |-> <<n>>, stdout |-> "utf-8",
            pillow |-> "9.5 or later"] : n \in 1..MaxGradSize }

\* Where a run of each entry point starts.
StartPc(fn) ==
    CASE fn = "generate_icon"    -> "gi_import"
      [] fn = "generate_favicon" -> "sf_import"
      [] OTHER                   -> "drv"

\* No local is bound yet (0 stands for an unbound name).
EnvInit(e) ==
    [args |-> e.args, stack |-> <<>>, result |-> 0,
     size |-> 0, S |-> 0, i |-> 0, k |-> 0, sz |-> 0,
     img |-> 0, draw |-> 0, overlay |-> 0, largest |-> 0,
     bg |-> 0, base |-> 0, layer |-> 0, icon |-> 0,
     vg |-> <<0, <<>>, <<>>>>, dv |-> <<0, <<>>>>]

Init ==
    /\ entry \in Entries
    /\ pc = StartPc(entry.fn)
    /\ env = EnvInit(entry)
    /\ heap = <<>>
    /\ trace = <<>>
    /\ fs = <<>>
    /\ fault = "none"

\* A call: continue at label, come back to ret.
Push(e, ret) == [e EXCEPT !.stack = <<ret>> \o @]
\* A return: the label to come back to, and the stack without it.
Top(e) == Head(e.stack)
Pop(e) == [e EXCEPT !.stack = Tail(@)]

\* An unhandled exception ends the run where it is raised.
Raise(exc) ==
    /\ fault' = exc
    /\ pc' = "aborted"
    /\ UNCHANGED <<entry, env, heap, trace, fs>>

\* ------------------------------------------------------------- drivers
DriveMakeVaultyFavicon ==
    /\ pc = "drv" /\ entry.fn = "make_vaulty_favicon" /\ env.args # <<>>
    /\ env' = Push([env EXCEPT !.size = Head(env.args), !.args = Tail(env.args)], "drv")
    /\ pc' = "fv_new"
    /\ UNCHANGED <<entry, heap, trace, fs, fault>>

DriveDrawV ==
    /\ pc = "drv" /\ entry.fn = "draw_v" /\ env.args # <<>>
    /\ heap' = NewImage(heap, "RGBA", Head(env.args))
    /\ env' = Push([env EXCEPT !.layer = Newest(heap'), !.draw = Newest(heap'),
                                !.dv = <<Head(env.args), WHITE>>,
                                !.args = Tail(env.args)], "drv")
    /\ trace' = Append(trace, [call |-> "Image.new", id |-> Newest(heap'),
                                mode |-> "RGBA", side |-> Head(env.args)])
    /\ pc' = "draw_v"
    /\ UNCHANGED <<entry, fs, fault>>

DriveMakeIcon ==
    /\ pc = "drv" /\ entry.fn = "make_icon" /\ env.args # <<>>
    /\ env' = Push([env EXCEPT !.size = Head(env.args), !.args = Tail(env.args)], "drv")
    /\ pc' = "mi_start"
    /\ UNCHANGED <<entry, heap, trace, fs, fault>>

DriveVerticalGradient ==
    /\ pc = "drv" /\ entry.fn = "vertical_gradient" /\ env.args # <<>>
    /\ env' = Push([env EXCEPT !.vg = <<Head(env.args), INDIGO_TOP, INDIGO_BOTTOM>>,
                                !.args = Tail(env.args)], "drv")
    /\ pc' = "vg"
    /\ UNCHANGED <<entry, heap, trace, fs, fault>>

DriveDone ==
    /\ pc = "drv" /\ env.args = <<>>
    /\ pc' = "done"
    /\ UNCHANGED <<entry, env, heap, trace, fs, fault>>

\* --------------------------------------------------- make_vaulty_favicon
\* img = Image.new("RGBA", (size, size), (0, 0, 0, 0)); draw = ImageDraw.Draw(img)
FvNew ==
    /\ pc = "fv_new"
    /\ heap' = NewImage(heap, "RGBA", env.size)
    /\ env' = [env EXCEPT !.img = Newest(heap'), !.draw = Newest(heap'), !.i = 0]
    /\ trace' = Append(trace, [call |-> "Image.new", id |-> Newest(heap'),
                                mode |-> "RGBA", side |-> env.size])
    /\ pc' = "fv_background"
    /\ UNCHANGED <<entry, fs, fault>>

\* draw.rounded_rectangle(..., fill=bg_color)
FvBackground ==
    /\ pc = "fv_background" /\ HasRoundedRectangle(entry.pillow)
    /\ heap' = DrawOn(heap, env.draw, background_op(env.size))
    /\ trace' = Append(trace, [call |-> "rounded_rectangle", on |-> env.draw,
                                op |-> background_op(env.size)])
    /\ pc' = "fv_rings"
    /\ UNCHANGED <<entry, env, fs, fault>>

\* This Pillow's ImageDraw has no rounded_rectangle: AttributeError, unhandled.
FvBackgroundAttributeError ==
    /\ pc = "fv_background" /\ ~HasRoundedRectangle(entry.pillow)
    /\ Raise("AttributeError")

\* One iteration of `for i in range(4)`: a fresh overlay, the outline drawn on
\* it, and img rebound to the composite of img and the overlay.
FvRing ==
    /\ pc = "fv_rings" /\ env.i < RING_COUNT
    /\ ~BoxRejected(entry.pillow, ring_op(env.size, env.i).box)
    /\ LET h1 == NewImage(heap, "RGBA", env.size)
           ov == Newest(h1)
           h2 == DrawOn(h1, ov, ring_op(env.size, env.i))
           h3 == alpha_composite(h2, env.img, ov)
       IN  /\ heap' = h3
           /\ env' = [env EXCEPT !.overlay = ov, !.img = Newest(h3), !.i = env.i + 1]
           /\ trace' = trace \o
                << [call |-> "Image.new", id |-> ov, mode |-> "RGBA", side |-> env.size],
                   [call |-> "rounded_rectangle", on |-> ov, op |-> ring_op(env.size, env.i)],
                   [call |-> "alpha_composite", base |-> env.img, over |-> ov,
                    id |-> Newest(h3)] >>
    /\ pc' = "fv_rings"
    /\ UNCHANGED <<entry, fs, fault>>

\* The ring's box is inverted (size - 1 - i < i) and Pillow checks it: the
\* overlay was created, od.rounded_rectangle raises ValueError, unhandled.
FvRingValueError ==
    /\ pc = "fv_rings" /\ env.i < RING_COUNT
    /\ BoxRejected(entry.pillow, ring_op(env.size, env.i).box)
    /\ heap' = NewImage(heap, "RGBA", env.size)
    /\ trace' = Append(trace, [call |-> "Image.new", id |-> Newest(heap'),
                                mode |-> "RGBA", side |-> env.size])
    /\ fault' = "ValueError"
    /\ pc' = "aborted"
    /\ UNCHANGED <<entry, env, fs>>

\* Mutant of RebindDraw: the handle made before the ring loop is kept.
RebindDrawStale(e) == e

\* draw = ImageDraw.Draw(img), after the ring loop
RebindDraw(e) == [e EXCEPT !.draw = e.img]

FvRebind ==
    /\ pc = "fv_rings" /\ env.i >= RING_COUNT
    /\ env' = RebindDraw(env)
    /\ pc' = "fv_glyph"
    /\ UNCHANGED <<entry, heap, trace, fs, fault>>

\* The geometry and draw.polygon(v_poly, fill=accent)
FvGlyph ==
    /\ pc = "fv_glyph"
    /\ heap' = DrawOn(heap, env.draw, glyph_op(env.size))
    /\ trace' = Append(trace, [call |-> "polygon", on |-> env.draw,
                                op |-> glyph_op(env.size)])
    /\ pc' = "fv_two_tone"
    /\ UNCHANGED <<entry, env, fs, fault>>

\* overlay2, od2.polygon(right_half, ...), img = alpha_composite(img, overlay2)
FvTwoTone ==
    /\ pc = "fv_two_tone"
    /\ LET h1 == NewImage(heap, "RGBA", env.size)
           ov == Newest(h1)
           h2 == DrawOn(h1, ov, two_tone_op(env.size))
           h3 == alpha_composite(h2, env.img, ov)
       IN  /\ heap' = h3
           /\ env' = [env EXCEPT !.overlay = ov, !.img = Newest(h3)]
           /\ trace' = trace \o
                << [call |-> "Image.new", id |-> ov, mode |-> "RGBA", side |-> env.size],
                   [call |-> "polygon", on |-> ov, op |-> two_tone_op(env.size)],
                   [call |-> "alpha_composite", base |-> env.img, over |-> ov,
                    id |-> Newest(h3)] >>
    /\ pc' = "fv_return"
    /\ UNCHANGED <<entry, fs, fault>>

\* return img
FvReturn ==
    /\ pc = "fv_return"
    /\ env' = Pop([env EXCEPT !.result = env.img])
    /\ trace' = Append(trace, [call |-> "return", fn |-> "make_vaulty_favicon",
                                size |-> env.size, id |-> env.img])
    /\ pc' = Top(env)
    /\ UNCHANGED <<entry, heap, fs, fault>>

\* ---------------------------------------------------------- save_favicon
\* try: from PIL import Image, ImageDraw (with a Pillow installed)
SfImport ==
    /\ pc = "sf_import" /\ entry.pillow # "none"
    /\ pc' = "sf_makedirs"
    /\ UNCHANGED <<entry, env, heap, trace, fs, fault>>

\* except ImportError: subprocess.check_call([..., "pip", "install", "--user",
\* "Pillow"]) succeeds and a Pillow is installed.
SfPipInstall ==
    /\ pc = "sf_import" /\ entry.pillow = "none"
    /\ \E pil \in Installable : entry' = [entry EXCEPT !.pillow = pil]
    /\ trace' = Append(trace, [call |-> "pip", args |-> <<"install", "--user", "Pillow">>])
    /\ pc' = "sf_reimport"
    /\ UNCHANGED <<env, heap, fs, fault>>

\* pip exits with a nonzero status (no network, no pip, a virtualenv without
\* user site): subprocess.CalledProcessError, unhandled.
SfPipInstallFails ==
    /\ pc = "sf_import" /\ entry.pillow = "none"
    /\ Raise("CalledProcessError")

\* importlib.invalidate_caches(); from PIL import Image, ImageDraw
SfReimport ==
    /\ pc = "sf_reimport"
    /\ pc' = "sf_makedirs"
    /\ UNCHANGED <<entry, env, heap, trace, fs, fault>>

\* The user site directory did not exist when the interpreter started, so it
\* is not on sys.path and the second import fails: ModuleNotFoundError,
\* unhandled.
SfReimportFails ==
    /\ pc = "sf_reimport"
    /\ Raise("ModuleNotFoundError")

\* os.makedirs(os.path.dirname(path), exist_ok=True)
SfMakedirs ==
    /\ pc = "sf_makedirs"
    /\ trace' = Append(trace, [call |-> "makedirs", path |-> dirname(favicon_out)])
    /\ pc' = "sf_render"
    /\ UNCHANGED <<entry, env, heap, fs, fault>>

\* The directory cannot be created: OSError, unhandled.
SfMakedirsFails ==
    /\ pc = "sf_makedirs"
    /\ Raise("OSError")

\* largest = make_vaulty_favicon(sizes[-1]): the call
SfRender ==
    /\ pc = "sf_render"
    /\ env' = Push([env EXCEPT !.size = favicon_sizes[Len(favicon_sizes)]], "sf_save")
    /\ trace' = Append(trace, [call |-> "make_vaulty_favicon",
                                size |-> favicon_sizes[Len(favicon_sizes)]])
    /\ pc' = "fv_new"
    /\ UNCHANGED <<entry, heap, fs, fault>>

\* Mutant of embedded_sizes: only the rendered size is listed.
embedded_sizes_largest_only ==
    << <<favicon_sizes[Len(favicon_sizes)], favicon_sizes[Len(favicon_sizes)]>> >>

\* sizes=[(s, s) for s in sizes]
embedded_sizes == [k \in 1..Len(favicon_sizes) |-> <<favicon_sizes[k], favicon_sizes[k]>>]

\* largest.save(path, format="ICO", sizes=[(s, s) for s in sizes])
SfSave ==
    /\ pc = "sf_save"
    /\ env' = [env EXCEPT !.largest = env.result]
    /\ fs' = Append(fs, [path |-> favicon_out, format |-> "ICO",
                          side |-> heap[env.result].side, sizes |-> embedded_sizes,
                          image |-> heap[env.result]])
    /\ trace' = Append(trace, [call |-> "save", id |-> env.result, path |-> favicon_out,
                                format |-> "ICO", sizes |-> embedded_sizes])
    /\ pc' = "sf_print"
    /\ UNCHANGED <<entry, heap, fault>>

\* The file cannot be written: OSError, unhandled.
SfSaveFails ==
    /\ pc = "sf_save"
    /\ Raise("OSError")

\* print(f"<U+2713> Favicon saved <U+2192> {path}")
SfPrint ==
    /\ pc = "sf_print" /\ Printable(entry.stdout, favicon_line_chars)
    /\ trace' = Append(trace, [call |-> "print", text |-> favicon_out])
    /\ pc' = "sf_print_sizes"
    /\ UNCHANGED <<entry, env, heap, fs, fault>>

\* stdout cannot encode the "Favicon saved" line: UnicodeEncodeError,
\* unhandled, with favicon.ico already written.
SfPrintFails ==
    /\ pc = "sf_print" /\ ~Printable(entry.stdout, favicon_line_chars)
    /\ Raise("UnicodeEncodeError")

\* stdout refuses the encoded line: OSError, unhandled, with favicon.ico
\* already written.
SfPrintWriteFails ==
    /\ pc = "sf_print" /\ Printable(entry.stdout, favicon_line_chars)
    /\ Raise("OSError")

\* print(f"  Sizes embedded: {sizes}"): ASCII, every encoding has it.
SfPrintSizes ==
    /\ pc = "sf_print_sizes"
    /\ trace' = Append(trace, [call |-> "print", text |-> favicon_sizes])
    /\ pc' = "done"
    /\ UNCHANGED <<entry, env, heap, fs, fault>>

\* stdout refuses the second line: OSError, unhandled, after the first line
\* was printed.
SfPrintSizesWriteFails ==
    /\ pc = "sf_print_sizes"
    /\ Raise("OSError")

\* ----------------------------------------------------- vertical_gradient
\* img = Image.new("RGB", (size, size)); px = img.load(); the two loops; return img
VerticalGradient ==
    /\ pc = "vg" /\ ~GradientFaults(env.vg[1])
    /\ heap' = vertical_gradient(heap, env.vg[1], env.vg[2], env.vg[3])
    /\ env' = Pop([env EXCEPT !.result = Newest(heap')])
    /\ trace' = trace \o
            << [call |-> "Image.new", id |-> Newest(heap'), mode |-> "RGB",
                side |-> env.vg[1]],
               [call |-> "load", on |-> Newest(heap')],
               [call |-> "return", fn |-> "vertical_gradient",
                size |-> env.vg[1], id |-> Newest(heap'),
                top |-> env.vg[2], bot |-> env.vg[3]] >>
    /\ pc' = Top(env)
    /\ UNCHANGED <<entry, fs, fault>>

\* y / (size - 1) with size = 1: the image was created and loaded, no pixel
\* was stored, and the first row raises ZeroDivisionError, unhandled.
VerticalGradientZeroDivision ==
    /\ pc = "vg" /\ GradientFaults(env.vg[1])
    /\ heap' = NewImage(heap, "RGB", env.vg[1])
    /\ trace' = trace \o
            << [call |-> "Image.new", id |-> Newest(heap'), mode |-> "RGB",
                side |-> env.vg[1]],
               [call |-> "load", on |-> Newest(heap')] >>
    /\ fault' = "ZeroDivisionError"
    /\ pc' = "aborted"
    /\ UNCHANGED <<entry, env, fs>>

\* ---------------------------------------------------------------- draw_v
DrawV ==
    /\ pc = "draw_v"
    /\ LET ops == draw_v(env.dv[1], env.dv[2])
       IN  /\ heap' = DrawOn(DrawOn(heap, env.draw, ops[1]), env.draw, ops[2])
           /\ trace' = trace \o
                << [call |-> "polygon", on |-> env.draw, op |-> ops[1]],
                   [call |-> "polygon", on |-> env.draw, op |-> ops[2]],
                   [call |-> "return", fn |-> "draw_v", size |-> env.dv[1],
                    id |-> env.draw] >>
    /\ env' = Pop(env)
    /\ pc' = Top(env)
    /\ UNCHANGED <<entry, fs, fault>>

\* ------------------------------------------------------------- make_icon
\* Mutant of supersampled: the background is built at the output size.
supersampled_not(size) == size

\* S = size * SCALE
supersampled(size) == size * SCALE

\* S = size * SCALE; bg = vertical_gradient(S, INDIGO_TOP, INDIGO_BOTTOM): the call
MiStart ==
    /\ pc = "mi_start"
    /\ env' = Push([env EXCEPT !.S = supersampled(env.size),
                                !.vg = <<supersampled(env.size), INDIGO_TOP, INDIGO_BOTTOM>>],
                    "mi_base")
    /\ pc' = "vg"
    /\ UNCHANGED <<entry, heap, trace, fs, fault>>

\* bg = <the gradient>; base = Image.new("RGBA", (S, S), (0, 0, 0, 0))
MiBase ==
    /\ pc = "mi_base"
    /\ heap' = NewImage(heap, "RGBA", env.S)
    /\ env' = [env EXCEPT !.bg = env.result, !.base = Newest(heap')]
    /\ trace' = Append(trace, [call |-> "Image.new", id |-> Newest(heap'),
                                mode |-> "RGBA", side |-> env.S])
    /\ pc' = "mi_paste"
    /\ UNCHANGED <<entry, fs, fault>>

\* base.paste(bg, mask=rounded_rect_mask(S, radius_frac=0.22)).  Pillow raises
\* ValueError unless the mask has the size of the pasted image.
MiPaste ==
    /\ pc = "mi_paste" /\ HasRoundedRectangle(entry.pillow)
    /\ LET h1 == rounded_rect_mask(heap, env.S)
           mk == Newest(h1)
       IN  IF h1[mk].side = h1[env.bg].side
           THEN /\ heap' = DrawOn(h1, env.base,
                               [op |-> "paste", src |-> h1[env.bg].ops,
                                mask |-> h1[mk].ops])
                /\ trace' = trace \o
                       << [call |-> "Image.new", id |-> mk, mode |-> "L",
                           side |-> h1[mk].side],
                          [call |-> "rounded_rectangle", on |-> mk,
                           op |-> h1[mk].ops[1]],
                          [call |-> "paste", on |-> env.base, src |-> env.bg,
                           mask |-> mk,
                           sides |-> <<h1[env.base].side, h1[env.bg].side,
                                       h1[mk].side>>] >>
                /\ pc' = "mi_layer"
                /\ UNCHANGED <<entry, env, fs, fault>>
           ELSE Raise("ValueError")

\* This Pillow's ImageDraw has no rounded_rectangle: rounded_rect_mask has
\* created the mask and raises AttributeError, unhandled.
MiMaskAttributeError ==
    /\ pc = "mi_paste" /\ ~HasRoundedRectangle(entry.pillow)
    /\ heap' = NewImage(heap, "L", env.S)
    /\ trace' = Append(trace, [call |-> "Image.new", id |-> Newest(heap'),
                                mode |-> "L", side |-> env.S])
    /\ fault' = "AttributeError"
    /\ pc' = "aborted"
    /\ UNCHANGED <<entry, env, fs>>

\* layer = Image.new("RGBA", (S, S), ...); draw = ImageDraw.Draw(layer);
\* draw_v(draw, S, WHITE): the call
MiLayer ==
    /\ pc = "mi_layer"
    /\ heap' = NewImage(heap, "RGBA", env.S)
    /\ env' = Push([env EXCEPT !.layer = Newest(heap'), !.draw = Newest(heap'),
                                !.dv = <<env.S, WHITE>>], "mi_composite")
    /\ trace' = Append(trace, [call |-> "Image.new", id |-> Newest(heap'),
                                mode |-> "RGBA", side |-> env.S])
    /\ pc' = "draw_v"
    /\ UNCHANGED <<entry, fs, fault>>

\* base = Image.alpha_composite(base, layer)
MiComposite ==
    /\ pc = "mi_composite"
    /\ IF CanComposite(heap, env.base, env.layer)
       THEN /\ heap' = alpha_composite(heap, env.base, env.layer)
            /\ env' = [env EXCEPT !.base = Newest(heap')]
            /\ trace' = Append(trace,
                           [call |-> "alpha_composite", base |-> env.base,
                            over |-> env.layer, id |-> Newest(heap'),
                            sides |-> <<heap[env.base].side, heap[env.layer].side>>])
            /\ pc' = "mi_resize"
            /\ UNCHANGED <<entry, fs, fault>>
       ELSE Raise("ValueError")

\* icon = base.resize((size, size), Image.LANCZOS); return icon
MiResize ==
    /\ pc = "mi_resize"
    /\ heap' = Append(heap, [mode |-> heap[env.base].mode, side |-> env.size,
                              ops |-> << [op |-> "resize", filter |-> "LANCZOS",
                                          from |-> heap[env.base].side,
                                          src |-> heap[env.base].ops] >>])
    /\ env' = Pop([env EXCEPT !.icon = Newest(heap'), !.result = Newest(heap')])
    /\ trace' = trace \o
            << [call |-> "resize", src |-> env.base, side |-> env.size,
                id |-> Newest(heap')],
               [call |-> "return", fn |-> "make_icon", size |-> env.size,
                id |-> Newest(heap')] >>
    /\ pc' = Top(env)
    /\ UNCHANGED <<entry, fs, fault>>

\* ------------------------------------------------- generate_icon.py, main
\* from PIL import Image, ImageDraw (with a Pillow installed)
GiImport ==
    /\ pc = "gi_import" /\ entry.pillow # "none"
    /\ pc' = "gi_makedirs"
    /\ UNCHANGED <<entry, env, heap, trace, fs, fault>>

\* No Pillow: ModuleNotFoundError, unhandled (this script has no fallback).
GiImportFails ==
    /\ pc = "gi_import" /\ entry.pillow = "none"
    /\ Raise("ModuleNotFoundError")

\* os.makedirs(OUT_DIR, exist_ok=True)
GiMakedirs ==
    /\ pc = "gi_makedirs"
    /\ trace' = Append(trace, [call |-> "makedirs", path |-> OUT_DIR])
    /\ pc' = "gi_for"
    /\ UNCHANGED <<entry, env, heap, fs, fault>>

\* The directory cannot be created: OSError, unhandled.
GiMakedirsFails ==
    /\ pc = "gi_makedirs"
    /\ Raise("OSError")

\* for sz in SIZES: icon = make_icon(sz): the next size and the call
GiFor ==
    /\ pc = "gi_for" /\ env.k < Len(SIZES)
    /\ env' = Push([env EXCEPT !.k = env.k + 1, !.sz = SIZES[env.k + 1],
                                !.size = SIZES[env.k + 1]], "gi_save")
    /\ pc' = "mi_start"
    /\ UNCHANGED <<entry, heap, trace, fs, fault>>

\* icon.save(path, "PNG")
GiSave ==
    /\ pc = "gi_save"
    /\ env' = [env EXCEPT !.icon = env.result]
    /\ fs' = Append(fs, [path |-> icon_path(env.sz), format |-> "PNG",
                          side |-> heap[env.result].side,
                          sizes |-> << <<heap[env.result].side, heap[env.result].side>> >>,
                          image |-> heap[env.result]])
    /\ trace' = Append(trace, [call |-> "save", id |-> env.result,
                                path |-> icon_path(env.sz), format |-> "PNG"])
    /\ pc' = "gi_print"
    /\ UNCHANGED <<entry, heap, fault>>

\* Mutant of GiSaveFails: the failed save is swallowed and the loop goes on.
GiSaveFailsSwallowed ==
    /\ pc = "gi_save"
    /\ pc' = "gi_print"
    /\ UNCHANGED <<entry, env, heap, trace, fs, fault>>

\* The file cannot be written: OSError, unhandled.
GiSaveFails ==
    /\ pc = "gi_save"
    /\ Raise("OSError")

\* print(f"  <U+2713>  {path}  ({sz}<U+00D7>{sz})")
GiPrint ==
    /\ pc = "gi_print" /\ Printable(entry.stdout, icon_line_chars)
    /\ trace' = Append(trace, [call |-> "print", text |-> icon_path(env.sz)])
    /\ pc' = "gi_for"
    /\ UNCHANGED <<entry, env, heap, fs, fault>>

\* stdout cannot encode that line: UnicodeEncodeError, unhandled, with the
\* file of this size already written.
GiPrintFails ==
    /\ pc = "gi_print" /\ ~Printable(entry.stdout, icon_line_chars)
    /\ Raise("UnicodeEncodeError")

\* stdout refuses the encoded line: OSError, unhandled, with the file of
\* this size already written.
GiPrintWriteFails ==
    /\ pc = "gi_print" /\ Printable(entry.stdout, icon_line_chars)
    /\ Raise("OSError")

\* The loop is exhausted: print("Done. All icons written to", OUT_DIR),
\* ASCII, every encoding has it.
GiDone ==
    /\ pc = "gi_for" /\ env.k >= Len(SIZES)
    /\ trace' = Append(trace, [call |-> "print", text |-> "Done"])
    /\ pc' = "done"
    /\ UNCHANGED <<entry, env, heap, fs, fault>>

\* stdout refuses that last line: OSError, unhandled, with all the files
\* written.
GiDoneWriteFails ==
    /\ pc = "gi_for" /\ env.k >= Len(SIZES)
    /\ Raise("OSError")

Next ==
    \/ DriveMakeVaultyFavicon \/ DriveDrawV \/ DriveMakeIcon
    \/ DriveVerticalGradient \/ DriveDone
    \/ FvNew \/ FvBackground \/ FvBackgroundAttributeError \/ FvRing \/ FvRingValueError \/ FvRebind \/ FvGlyph \/ FvTwoTone \/ FvReturn
    \/ SfImport \/ SfPipInstall \/ SfPipInstallFails \/ SfReimport \/ SfReimportFails
    \/ SfMakedirs \/ SfMakedirsFails \/ SfRender \/ SfSave \/ SfSaveFails \/ SfPrint
    \/ SfPrintFails \/ SfPrintWriteFails \/ SfPrintSizes \/ SfPrintSizesWriteFails
    \/ VerticalGradient \/ VerticalGradientZeroDivision \/ DrawV
    \/ MiStart \/ MiBase \/ MiPaste \/ MiLayer \/ MiComposite \/ MiResize
    \/ GiImport \/ GiImportFails \/ MiMaskAttributeError
    \/ GiMakedirs \/ GiMakedirsFails \/ GiFor \/ GiSave \/ GiSaveFails \/ GiPrint \/ GiPrintFails
    \/ GiPrintWriteFails \/ GiDone \/ GiDoneWriteFails

Spec == Init /\ [][Next]_vars

\* ================================================================ claims
\* The positions in trace where fn returned.
Returns(fn) == { j \in 1..Len(trace) : trace[j].call = "return" /\ trace[j].fn = fn }

\* The last return before position j (0 when there is none).
PrevReturn(j) ==
    LET before == { i \in 1..(j - 1) : trace[i].call = "return" }
    IN  IF before = {} THEN 0 ELSE CHOOSE i \in before : \A i2 \in before : i2 <= i

IsPolygon(e) == e.call = "polygon"

\* The vertex lists of the polygons filled by the call that returns at j, in order.
PolysAt(j) ==
    LET calls == SelectSeq(SubSeq(trace, PrevReturn(j) + 1, j - 1), IsPolygon)
    IN  [n \in 1..Len(calls) |-> calls[n].op.pts]

GeometryFns == {"draw_v", "make_vaulty_favicon"}

\* --- exact arithmetic over coordinates.  A coordinate is a float, held as
\* the exact number it stands for; the statements below compare coordinates as
\* real numbers, without rounding.

\* -1, 0 or 1 as the number a is below, equal to or above the number b.
CmpMag(a, b) ==
    LET da(i) == IF i <= Len(a) THEN a[i] ELSE 0
        db(i) == IF i <= Len(b) THEN b[i] ELSE 0
        diff  == { i \in 1..Max2(Len(a), Len(b)) : da(i) # db(i) }
        m     == CHOOSE i \in diff : \A i2 \in diff : i2 <= i
    IN  IF diff = {} THEN 0 ELSE IF da(m) < db(m) THEN -1 ELSE 1

\* A real number by sign and magnitude.
Signed(sg, mag) == [sg |-> IF Trim(mag) = <<>> THEN 0 ELSE sg, mag |-> Trim(mag)]

\* a - b for a, b >= 0.
Diff(a, b) ==
    IF CmpMag(a, b) >= 0 THEN Signed(1, SubLimbs(Trim(a), Trim(b), 0))
                         ELSE Signed(-1, SubLimbs(Trim(b), Trim(a), 0))

\* x - y, x * y, n * x for an int n >= 1, and the order of x and y.
SSub(x, y) ==
    IF y.sg = 0 THEN x
    ELSE IF x.sg = 0 THEN Signed(-y.sg, y.mag)
    ELSE IF x.sg # y.sg THEN Signed(x.sg, AddLimbs(x.mag, y.mag, 0))
    ELSE Signed(x.sg * Diff(x.mag, y.mag).sg, Diff(x.mag, y.mag).mag)
SMul(x, y) == Signed(x.sg * y.sg, MulLimbs(x.mag, y.mag))
Scale(x, n) == Signed(x.sg, MulSmall(x.mag, n, 0))
SCmp(x, y) ==
    IF x.sg # y.sg THEN (IF x.sg < y.sg THEN -1 ELSE 1)
    ELSE x.sg * CmpMag(x.mag, y.mag)

\* a * b = c * d, and a * b < c * d.
SameProduct(a, b, c, d) == SCmp(SMul(a, b), SMul(c, d)) = 0
LessProduct(a, b, c, d) == SCmp(SMul(a, b), SMul(c, d)) = -1

\* S * 2^-53 for a canvas side S, as a float is held: half the spacing of the
\* floats below S is at most that.
OneRounding(S) == NatLimbs(S * (2 ^ 19))

\* C1: in every draw_v call the second polygon filled (the right arm) is, point
\* for point and in the same order, the first one (the left arm) reflected in
\* the vertical line through the canvas centre: its x is 2*(S/2) - x as the
\* code's arithmetic evaluates it, which is the reflected x to within one
\* rounding, and its y is the same; and it is not the list built from rx0 / rx1.
C1_ReflectionSymmetry ==
    \A j \in Returns("draw_v") :
        LET S == trace[j].size
            P == PolysAt(j)
        IN  /\ Len(P) = 2
            /\ Len(P[2]) = Len(P[1])
            /\ \A k \in 1..Len(P[1]) :
                  /\ P[2][k] = <<FloatSub(FloatOfNat(S), P[1][k][1]), P[1][k][2]>>
                  /\ CmpMag(Diff(AddLimbs(P[2][k][1], P[1][k][1], 0),
                                 FloatOfNat(S)).mag,
                            OneRounding(S)) <= 0
            /\ P[2] # right_arm_rx(S)

\* C1 witness: draw_v has filled both arms on a canvas of the largest icon.
C1_Witness ==
    \E j \in Returns("draw_v") :
        /\ trace[j].size = SIZES[Len(SIZES)] * SCALE
        /\ Len(PolysAt(j)) = 2

\* 2 * S1 * ((p2[c] - S2/2) - (S2/S1) * (p1[c] - S1/2)): zero when coordinate c
\* of p2 is that of p1 scaled by S2/S1 about the centre.
Deviation(p1, S1, p2, S2, c) ==
    SSub(Scale(Diff(MulSmall(p2[c], 2, 0), FloatOfNat(S2)), S1),
         Scale(Diff(MulSmall(p1[c], 2, 0), FloatOfNat(S1)), S2))

\* p2 - S2/2 = (S2/S1) * (p1 - S1/2), coordinate by coordinate.
ScaledAboutCentre(p1, S1, p2, S2) ==
    \A c \in 1..2 : Deviation(p1, S1, p2, S2, c).sg = 0

\* The same up to S2 * 2^-50 of a pixel in each coordinate.
ScaledUpToRounding(p1, S1, p2, S2) ==
    \A c \in 1..2 :
        CmpMag(Deviation(p1, S1, p2, S2, c).mag,
               MulSmall(MulSmall(NatLimbs(2 ^ 23), S1, 0), S2, 0)) <= 0

\* C2 (as claimed): whenever the same geometry function has run for two sizes
\* S1 < S2, every vertex of every polygon it filled for S2 equals the
\* corresponding vertex for S1 scaled by S2/S1 about the canvas centre.
C2_Proportionality ==
    \A f \in GeometryFns : \A j1 \in Returns(f) : \A j2 \in Returns(f) :
        trace[j1].size < trace[j2].size =>
            LET P1 == PolysAt(j1)
                P2 == PolysAt(j2)
            IN  /\ Len(P1) = Len(P2)
                /\ \A n \in 1..Len(P1) :
                      /\ Len(P1[n]) = Len(P2[n])
                      /\ \A k \in 1..Len(P1[n]) :
                            ScaledAboutCentre(P1[n][k], trace[j1].size,
                                              P2[n][k], trace[j2].size)

\* C2 (amended): whenever the same geometry function has run for two sizes
\* S1 < S2, it filled the same polygons with the same numbers of vertices, and
\* every vertex for S2 is the corresponding vertex for S1 scaled by S2/S1 about
\* the canvas centre up to the rounding of the arithmetic: each coordinate is
\* within S2 * 2^-50 of a pixel of the scaled one.
C2_ProportionalUpToRounding ==
    \A f \in GeometryFns : \A j1 \in Returns(f) : \A j2 \in Returns(f) :
        trace[j1].size < trace[j2].size =>
            LET P1 == PolysAt(j1)
                P2 == PolysAt(j2)
            IN  /\ Len(P1) = Len(P2)
                /\ \A n \in 1..Len(P1) :
                      /\ Len(P1[n]) = Len(P2[n])
                      /\ \A k \in 1..Len(P1[n]) :
                            ScaledUpToRounding(P1[n][k], trace[j1].size,
                                               P2[n][k], trace[j2].size)

\* C2 witness: the favicon glyph has been built for sizes 7 and 12, whose ratio
\* is not an integer, and its first vertex for 12 is not exactly the scaled
\* first vertex for 7.
C2_Witness ==
    \E j1 \in Returns("make_vaulty_favicon") : \E j2 \in Returns("make_vaulty_favicon") :
        /\ trace[j1].size = 7 /\ trace[j2].size = 12
        /\ Len(PolysAt(j1)) = 2 /\ Len(PolysAt(j2)) = 2
        /\ ~ScaledAboutCentre(PolysAt(j1)[1][1], 7, PolysAt(j2)[1][1], 12)

\* The vertices of the glyph the call returning at j filled: both arms of
\* draw_v, the six-point polygon of make_vaulty_favicon.
GlyphVertices(j) ==
    LET P == PolysAt(j)
        N == IF trace[j].fn = "draw_v" THEN Len(P) ELSE 1
    IN  UNION { { P[n][k] : k \in 1..Len(P[n]) } : n \in 1..N }

\* The least and the greatest of a set of coordinates.
MinOf(S) == CHOOSE m \in S : \A v \in S : CmpMag(m, v) <= 0
MaxOf(S) == CHOOSE m \in S : \A v \in S : CmpMag(m, v) >= 0

\* C3 (as claimed): in both variants the glyph's bounding box is centred on the
\* canvas: min x + max x = S and min y + max y = S.
C3_Centred ==
    \A f \in GeometryFns : \A j \in Returns(f) :
        LET V  == GlyphVertices(j)
            xs == { v[1] : v \in V }
            ys == { v[2] : v \in V }
        IN  /\ CmpMag(AddLimbs(MinOf(xs), MaxOf(xs), 0), FloatOfNat(trace[j].size)) = 0
            /\ CmpMag(AddLimbs(MinOf(ys), MaxOf(ys), 0), FloatOfNat(trace[j].size)) = 0

\* The run is over: the script ended, or an unhandled exception aborted it.
Terminal == pc \in {"done", "aborted"}

\* C4 (as claimed): the icon run never ends, normally or by an abort, with some
\* but not all of the four files written.
C4_NoPartialFiles ==
    (entry.fn = "generate_icon" /\ Terminal) => Len(fs) \in {0, Len(SIZES)}

\* The library call that completed last ("none" before the first).
LastCall == IF trace = <<>> THEN "none" ELSE trace[Len(trace)].call

\* C4 (amended): the icon run writes icon-{size}.png in list order, one file
\* per size; a normal end has written all four; an abort leaves what was
\* written: nothing when the import or makedirs failed, the files of the
\* sizes before the failing one when a render or a save failed, the files up
\* to and including the size just saved when the progress line after a save
\* could not be printed (not encoded, which happens at the first size, or not
\* written), and all four when the final line could not be written.
C4_PrefixWritten ==
    entry.fn = "generate_icon" =>
        /\ Len(fs) <= Len(SIZES)
        /\ \A k \in 1..Len(fs) :
              /\ fs[k].path = <<"extension/icons", "icon", SIZES[k], "png">>
              /\ fs[k].format = "PNG"
        /\ pc = "done" => Len(fs) = Len(SIZES)
        /\ pc = "aborted" =>
              fault \in {"OSError", "UnicodeEncodeError", "ModuleNotFoundError",
                         "AttributeError"}
        /\ (pc = "aborted" /\ fault = "ModuleNotFoundError") =>
              env.k = 0 /\ fs = <<>> /\ trace = <<>>
        /\ (pc = "aborted" /\ fault = "AttributeError") =>
              Len(fs) = env.k - 1 /\ env.k = 1
        /\ (pc = "aborted" /\ fault = "OSError") =>
              CASE LastCall = "none"  -> env.k = 0 /\ fs = <<>>
                [] LastCall = "save"  -> Len(fs) = env.k /\ env.k >= 1
                [] LastCall = "print" -> Len(fs) = env.k /\ env.k = Len(SIZES)
                [] OTHER              -> Len(fs) = env.k - 1 /\ env.k >= 1
        /\ (pc = "aborted" /\ fault = "UnicodeEncodeError") =>
              LastCall = "save" /\ Len(fs) = env.k /\ env.k = 1

\* C4 witness: the save of the third size failed, leaving two files.
C4_Witness ==
    /\ entry.fn = "generate_icon" /\ pc = "aborted" /\ fault = "OSError"
    /\ Len(fs) = 2 /\ env.sz = SIZES[3]

IsCallOf(name) == { j \in 1..Len(trace) : trace[j].call = name }

\* C5: a favicon run calls make_vaulty_favicon at most once and only with 64,
\* the largest of its sizes; saves at most once, with the embedded sizes
\* (16,16), (32,32), (48,48), (64,64), after the directory was created and
\* after the render; and a completed run has done each exactly once and has
\* written exactly one file.
C5_FaviconContainer ==
    entry.fn = "generate_favicon" =>
        LET renders == IsCallOf("make_vaulty_favicon")
            saves   == IsCallOf("save")
            mkdirs  == IsCallOf("makedirs")
        IN  /\ Cardinality(renders) <= 1
            /\ \A j \in renders :
                  /\ trace[j].size = 64
                  /\ \A k \in 1..Len(favicon_sizes) : favicon_sizes[k] <= trace[j].size
            /\ Cardinality(saves) <= 1
            /\ \A j \in saves :
                  /\ trace[j].sizes = << <<16, 16>>, <<32, 32>>, <<48, 48>>, <<64, 64>> >>
                  /\ trace[j].format = "ICO"
                  /\ \E m \in mkdirs : m < j
                  /\ \E r \in Returns("make_vaulty_favicon") :
                        r < j /\ trace[r].id = trace[j].id /\ heap[trace[j].id].side = 64
            /\ Len(fs) = Cardinality(saves)
            /\ \A k \in 1..Len(fs) : fs[k].path = [dir |-> "web/app", name |-> "favicon.ico"]
            /\ pc = "done" =>
                  Cardinality(renders) = 1 /\ Cardinality(saves) = 1 /\ Len(fs) = 1

\* C5 witness: a favicon run has completed.
C5_Witness ==
    /\ entry.fn = "generate_favicon" /\ pc = "done"
    /\ Len(fs) = 1 /\ fs[1].sizes[4] = <<64, 64>>

\* p lies on the closed segment from a to b.
OnSegment(p, a, b) ==
    /\ SameProduct(Diff(p[1], a[1]), Diff(b[2], a[2]), Diff(p[2], a[2]), Diff(b[1], a[1]))
    /\ CmpMag(p[1], a[1]) * CmpMag(p[1], b[1]) <= 0
    /\ CmpMag(p[2], a[2]) * CmpMag(p[2], b[2]) <= 0

\* The edge from a to b crosses the horizontal ray from p towards larger x.
CrossesRay(p, a, b) ==
    /\ (CmpMag(a[2], p[2]) = 1) # (CmpMag(b[2], p[2]) = 1)
    /\ IF CmpMag(b[2], a[2]) = 1
       THEN LessProduct(Diff(p[1], a[1]), Diff(b[2], a[2]),
                        Diff(p[2], a[2]), Diff(b[1], a[1]))
       ELSE LessProduct(Diff(p[2], a[2]), Diff(b[1], a[1]),
                        Diff(p[1], a[1]), Diff(b[2], a[2]))

\* p is inside the polygon or on its outline (even-odd rule).
InClosedPolygon(p, poly) ==
    LET n == Len(poly)
        nxt(k) == IF k = n THEN 1 ELSE k + 1
    IN  \/ \E k \in 1..n : OnSegment(p, poly[k], poly[nxt(k)])
        \/ Cardinality({ k \in 1..n : CrossesRay(p, poly[k], poly[nxt(k)]) }) % 2 = 1

\* C6 (as claimed): every vertex of the two-tone polygon right_half lies in the
\* closed V polygon, in its half x >= S/2.
C6_OverlayInsideGlyph ==
    \A j \in Returns("make_vaulty_favicon") :
        LET P == PolysAt(j)
        IN  \A k \in 1..Len(P[2]) :
                /\ CmpMag(MulSmall(P[2][k][1], 2, 0), FloatOfNat(trace[j].size)) >= 0
                /\ InClosedPolygon(P[2][k], P[1])

\* The last return of fn before position j (0 when there is none).
PrevReturnOf(fn, j) ==
    LET before == { i \in Returns(fn) : i < j }
    IN  IF before = {} THEN 0 ELSE CHOOSE i \in before : \A i2 \in before : i2 <= i

\* The positions of the calls named name made by the call of fn that returns at j.
CallsWithin(fn, j, name) == { i \in IsCallOf(name) : PrevReturnOf(fn, j) < i /\ i < j }

MakeIconBody == {"mi_base", "mi_paste", "mi_layer", "mi_composite", "mi_resize"}

\* C7: in make_icon(size) the gradient, the mask, the RGBA base and the glyph
\* layer all have side 4*size, the paste and the alpha_composite never meet
\* images of different sizes, and the image returned, and saved as
\* icon-{size}.png, has side size.
C7_SupersamplingDimensions ==
    /\ entry.fn \in {"generate_icon", "make_icon"} => fault # "ValueError"
    /\ pc \in MakeIconBody => env.S = 4 * env.size
    /\ \A j \in Returns("make_icon") :
          LET n == trace[j].size
          IN  /\ \A i \in CallsWithin("make_icon", j, "Image.new") :
                    trace[i].side = 4 * n /\ heap[trace[i].id].side = 4 * n
              /\ \E i \in CallsWithin("make_icon", j, "return") :
                    /\ trace[i].fn = "vertical_gradient"
                    /\ trace[i].size = 4 * n
                    /\ heap[trace[i].id].side = 4 * n
              /\ Cardinality(CallsWithin("make_icon", j, "paste")) = 1
              /\ \A i \in CallsWithin("make_icon", j, "paste") :
                    trace[i].sides = <<4 * n, 4 * n, 4 * n>>
              /\ Cardinality(CallsWithin("make_icon", j, "alpha_composite")) = 1
              /\ \A i \in CallsWithin("make_icon", j, "alpha_composite") :
                    trace[i].sides = <<4 * n, 4 * n>>
              /\ heap[trace[j].id].side = n
    /\ entry.fn = "generate_icon" =>
          \A k \in 1..Len(fs) : fs[k].side = SIZES[k] /\ fs[k].path[3] = SIZES[k]

\* C7 witness: the icon run has saved the 128-pixel icon, rendered at 512.
C7_Witness ==
    /\ entry.fn = "generate_icon" /\ Len(fs) = 4 /\ fs[4].side = 128
    /\ \E j \in Returns("make_icon") : trace[j].size = 128

\* C8: for S >= 2 the gradient has S rows; row 0 is the top colour, row S-1 the
\* bottom colour, and each channel of row y is the truncation of
\* top + (bot - top) * y / (S - 1), lies between the top and the bottom value
\* (so in 0..255), and moves monotonically from one to the other.
C8_GradientValues ==
    \A j \in Returns("vertical_gradient") :
        LET S    == trace[j].size
            top  == trace[j].top
            bot  == trace[j].bot
            rows == heap[trace[j].id].ops[1].rows
        IN  S >= 2 =>
            /\ DOMAIN rows = 0..(S - 1)
            /\ rows[0] = top
            /\ rows[S - 1] = bot
            /\ \A y \in 0..(S - 1) : \A c \in 1..3 :
                  LET v == rows[y][c]
                      N == top[c] * (S - 1) + (bot[c] - top[c]) * y
                  IN  /\ v * (S - 1) <= N /\ N < (v + 1) * (S - 1)
                      /\ Min2(top[c], bot[c]) <= v /\ v <= Max2(top[c], bot[c])
                      /\ 0 <= v /\ v <= 255
                      /\ y < S - 1 =>
                            IF top[c] >= bot[c] THEN rows[y + 1][c] <= v
                                                ELSE rows[y + 1][c] >= v

\* C8 witness: a gradient of at least three rows has been returned, with a
\* middle row strictly between the top and the bottom colour.
C8_Witness ==
    \E j \in Returns("vertical_gradient") :
        /\ trace[j].size >= 3
        /\ heap[trace[j].id].ops[1].rows[1][1] # trace[j].top[1]
        /\ heap[trace[j].id].ops[1].rows[1][1] # trace[j].bot[1]

\* C9 (as claimed): vertical_gradient called with a size >= 1 never ends in a
\* runtime fault.
C9_GradientNeverFaults ==
    (entry.fn = "vertical_gradient" /\ entry.args[1] >= 1) => fault = "none"

\* C10: the image make_vaulty_favicon returns holds, in this order, the
\* background fill, the four rings with inset 0,1,2,3 and alpha 60,45,30,15,
\* each composited on the result of the step before, the glyph fill, and the
\* two-tone overlay; the glyph is filled on the image that holds the
\* background and the four rings.
C10_CompositingOrder ==
    \A j \in Returns("make_vaulty_favicon") :
        LET S     == trace[j].size
            ops   == heap[trace[j].id].ops
            alpha == <<60, 45, 30, 15>>
            comps == CallsWithin("make_vaulty_favicon", j, "alpha_composite")
            fills == { i \in CallsWithin("make_vaulty_favicon", j, "polygon") :
                         Len(trace[i].op.pts) = 6 }
        IN  /\ Len(ops) = 7
            /\ ops[1].op = "rounded_rectangle" /\ ops[1].fill = <<15, 23, 42>>
            /\ \A i \in 0..3 :
                  /\ ops[2 + i].op = "composite"
                  /\ Len(ops[2 + i].src) = 1
                  /\ ops[2 + i].src[1].op = "rounded_rectangle"
                  /\ ops[2 + i].src[1].box = <<i, i, S - 1 - i, S - 1 - i>>
                  /\ ops[2 + i].src[1].outline = <<139, 92, 246, alpha[i + 1]>>
            /\ ops[6].op = "polygon" /\ ops[6].fill = <<99, 102, 241>>
            /\ Len(ops[6].pts) = 6
            /\ ops[7].op = "composite"
            /\ Len(ops[7].src) = 1
            /\ ops[7].src[1].op = "polygon" /\ ops[7].src[1].fill = <<139, 92, 246, 200>>
            /\ Cardinality(comps) = 5
            /\ \A a \in comps : \A b \in comps :
                  (a < b /\ ~\E m \in comps : a < m /\ m < b) =>
                      trace[b].base = trace[a].id
            /\ \A a \in comps : (\A b \in comps : b <= a) => trace[a].id = trace[j].id
            /\ Cardinality(fills) = 1
            /\ \A g \in fills :
                  /\ Cardinality({ a \in comps : a < g }) = 4
                  /\ \E a \in comps :
                        a < g /\ trace[a].id = trace[g].on
                        /\ \A b \in comps : b < g => b <= a

\* C10 witness: the favicon script has rendered its 64-pixel image.
C10_Witness ==
    /\ entry.fn = "generate_favicon" /\ pc = "sf_save"
    /\ \E j \in Returns("make_vaulty_favicon") :
          trace[j].size = 64 /\ Len(heap[trace[j].id].ops) = 7

====
